---- MODULE Spec2Model ----
(***************************************************************************)
(* State-machine model of the asset manager (assets/models.py,             *)
(* assets/forms.py, assets/views.py, assets/urls.py).                      *)
(*                                                                         *)
(* The database tables are the variables assets, documents and log; every  *)
(* request handler is one action that reads the request, changes the       *)
(* tables as the handler does and leaves its response in resp.  For        *)
(* concurrent edits the edit handler is also given as two steps, the load  *)
(* of the asset and the save, with the requests in between in editing.     *)
(*                                                                         *)
(* Optional (nullable) values are sequences of length at most one: None is *)
(* <<>> and a present value v is <<v>>.  Strings that the code inspects    *)
(* (asset names, search strings, file names) are sequences of characters.  *)
(* Money is counted in hundredths (value 10050 is 100.50).                 *)
(***************************************************************************)
EXTENDS Integers, Sequences, FiniteSets, TLC

VARIABLES
    assets,       \* table Asset: set of rows
    documents,    \* table AssetDocument: set of rows
    log,          \* table ActivityLog: rows in insertion (timestamp) order
    nextAssetId,  \* next value of the Asset id sequence
    nextDocId,    \* next value of the AssetDocument id sequence
    uploaded,     \* every file received in request.FILES, in order of storage
    editing,      \* edit requests that are between loading the asset and
                  \* saving it, one per client connection
    resp          \* the last request and its response

vars == <<assets, documents, log, nextAssetId, nextDocId, uploaded, editing, resp>>

----------------------------------------------------------------------------
(* Bounds of the model *)

MaxAssets == 2
MaxDocs == 2
MaxLog == 2

----------------------------------------------------------------------------
(* Values *)

None == <<>>
Some(v) == <<v>>
IsNone(x) == x = <<>>
Val(x) == x[1]

Users == {"alice", "bob"}
AnonymousUser == "anonymous"
Requesters == Users \cup {AnonymousUser}

\* is_authenticated of a view without the login requirement
is_authenticated_always(user) == TRUE

\* request.user.is_authenticated, as tested by LoginRequiredMixin/login_required
is_authenticated(user) == user \in Users

\* Asset.CATEGORY_CHOICES: category tag -> display label
CATEGORY_CHOICES ==
    [ mutual_funds      |-> "Mutual Funds",
      stocks            |-> "Stocks",
      lands             |-> "Lands",
      flats             |-> "Flats",
      fixed_deposit     |-> "Fixed Deposit",
      medical_insurance |-> "Medical Insurance",
      life_insurance    |-> "Life Insurance",
      gold              |-> "Gold" ]

Categories == DOMAIN CATEGORY_CHOICES

\* ActivityLog.ACTION_CHOICES
ACTION_CHOICES == {"create", "update", "delete", "view", "upload", "download"}

\* Python truthiness of an optional Decimal: None and Decimal('0') are falsy
Truthy(x) == ~IsNone(x) /\ Val(x) # 0

----------------------------------------------------------------------------
(* assets/forms.py: AssetForm *)

\* AssetForm.Meta.fields, restricted to the fields the validation rules read
\* plus latitude/longitude; the remaining optional fields are never required
\* and never inspected by clean().
FormFields == {"name", "category", "value", "start_date", "end_date",
               "latitude", "longitude"}

\* AssetForm.__init__: the category that drives field requirements is the
\* constructor argument when truthy, else the category of a saved instance.
\* instance_category is None for an unsaved instance (instance.pk is None).
current_category(category_kw, instance_category) ==
    IF ~IsNone(category_kw) /\ Val(category_kw) # ""
    THEN category_kw
    ELSE instance_category

\* AssetForm._setup_category_fields together with the model's blank=False
\* fields: the set of required form fields.
setup_category_fields(category) ==
    {"name", "category", "value", "start_date"}
        \cup (IF category = Some("lands") THEN {"latitude", "longitude"} ELSE {})

\* Field.clean for one field: a missing value fails when the field is
\* required, a category outside CATEGORY_CHOICES fails the choice check.
field_valid(f, post, category) ==
    IF IsNone(post[f])
    THEN f \notin setup_category_fields(category)
    ELSE (f = "category" => Val(post[f]) \in Categories)

\* BaseForm._clean_fields: cleaned_data holds the fields that passed.
cleaned_data(post, category) ==
    [f \in FormFields |-> IF field_valid(f, post, category) THEN post[f] ELSE None]

\* clean() without the check of the coordinates
clean_raises_no_lands(cd) ==
    /\ ~IsNone(cd["start_date"])
    /\ ~IsNone(cd["end_date"])
    /\ Val(cd["end_date"]) < Val(cd["start_date"])

\* clean_raises without the date comparison
clean_raises_no_dates(cd) ==
    /\ cd["category"] = Some("lands")
    /\ (~Truthy(cd["latitude"]) \/ ~Truthy(cd["longitude"]))

\* AssetForm.clean: TRUE when it raises ValidationError
clean_raises(cd) ==
    \/ /\ ~IsNone(cd["start_date"])
       /\ ~IsNone(cd["end_date"])
       /\ Val(cd["end_date"]) < Val(cd["start_date"])
    \/ /\ cd["category"] = Some("lands")
       /\ (~Truthy(cd["latitude"]) \/ ~Truthy(cd["longitude"]))

\* BaseForm.is_valid: no field error and no error raised by clean()
is_valid(post, category) ==
    /\ \A f \in FormFields : field_valid(f, post, category)
    /\ ~clean_raises(cleaned_data(post, category))

\* construct_instance + save: the row written for a valid form
save_instance(id, owner, cd) ==
    [ id         |-> id,
      owner      |-> owner,
      name       |-> Val(cd["name"]),
      category   |-> Val(cd["category"]),
      value      |-> Val(cd["value"]),
      start_date |-> Val(cd["start_date"]),
      end_date   |-> cd["end_date"],
      latitude   |-> cd["latitude"],
      longitude  |-> cd["longitude"] ]

----------------------------------------------------------------------------
(* assets/models.py: AssetDocument, ActivityLog *)

\* Position of the last "." that starts an extension (os.path.splitext):
\* leading dots of the name do not start an extension.  0 when there is none.
RECURSIVE LeadingDots(_)
LeadingDots(s) ==
    IF s # <<>> /\ Head(s) = "." THEN 1 + LeadingDots(Tail(s)) ELSE 0

ExtPos(s) ==
    LET dots == {i \in (LeadingDots(s) + 1)..Len(s) : s[i] = "."}
    IN  IF dots = {} THEN 0 ELSE CHOOSE i \in dots : \A j \in dots : j <= i

\* os.path.splitext(name) as <<root, ext>>
splitext(s) ==
    IF ExtPos(s) = 0 THEN <<s, <<>>>>
    ELSE <<SubSeq(s, 1, ExtPos(s) - 1), SubSeq(s, ExtPos(s), Len(s))>>

\* mimetypes.guess_type(name)[0] for the extensions of the model's files;
\* <<>> stands for None (unknown type)
guess_type(name) ==
    LET ext == splitext(name)[2]
    IN  CASE ext = <<".", "p", "d", "f">> -> Some("application/pdf")
          [] ext = <<".", "p", "n", "g">> -> Some("image/png")
          [] OTHER -> None

\* settings.ALLOWED_DOCUMENT_EXTENSIONS as clean_files compares it with the
\* dotted, lower-cased extension: the nine types of AssetDocument and of the
\* upload widget's accept attribute
ALLOWED_DOCUMENT_EXTENSIONS ==
    { <<".", "p", "d", "f">>, <<".", "j", "p", "g">>, <<".", "j", "p", "e", "g">>,
      <<".", "p", "n", "g">>, <<".", "g", "i", "f">>, <<".", "d", "o", "c">>,
      <<".", "d", "o", "c", "x">>, <<".", "x", "l", "s">>,
      <<".", "x", "l", "s", "x">> }

\* settings.MAX_DOCUMENT_SIZE in bytes, configured small enough for the
\* model's files to exceed it
MAX_DOCUMENT_SIZE == 2

\* str.lower() on the letters of the model's file names
LOWER(c) ==
    CASE c = "P" -> "p" [] c = "D" -> "d" [] c = "F" -> "f" [] OTHER -> c

lower(s) == [i \in DOMAIN s |-> LOWER(s[i])]

\* UploadedFile.size
size(f) == Len(f.content)

\* FileField.clean for one file of MultiFileField.clean: a file without a
\* name or without content raises ValidationError
single_file_clean_raises(f) == f.name = <<>> \/ size(f) = 0

\* clean_files accepting the files it can and dropping the others
clean_files_lenient(files) ==
    LET ok(f) == /\ ~single_file_clean_raises(f)
                 /\ lower(splitext(f.name)[2]) \in ALLOWED_DOCUMENT_EXTENSIONS
                 /\ size(f) <= MAX_DOCUMENT_SIZE
    IN  [valid |-> TRUE, files |-> SelectSeq(files, ok)]

\* AssetDocumentForm(files=...).is_valid() and cleaned_data['files']:
\* MultiFileField.clean cleans every file, then clean_files raises at the
\* first file whose extension or size it refuses; a ValidationError makes the
\* form invalid and leaves no 'files' in cleaned_data
clean_files(files) ==
    LET raises(f) ==
            \/ lower(splitext(f.name)[2]) \notin ALLOWED_DOCUMENT_EXTENSIONS
            \/ size(f) > MAX_DOCUMENT_SIZE
    IN  IF \E i \in DOMAIN files :
                single_file_clean_raises(files[i]) \/ raises(files[i])
        THEN [valid |-> FALSE, files |-> <<>>]
        ELSE [valid |-> TRUE, files |-> files]

\* create_from_file reading a stream whose first byte was already consumed
create_from_file_partial(id, asset_id, uploaded_file) ==
    LET mime_type    == guess_type(uploaded_file.name)
        file_content == Tail(uploaded_file.content)
    IN  [ id        |-> id,
          asset     |-> asset_id,
          file_data |-> file_content,
          file_name |-> uploaded_file.name,
          file_type |-> IF IsNone(mime_type) THEN "application/octet-stream"
                        ELSE Val(mime_type),
          file_size |-> Len(file_content),
          name      |-> IF uploaded_file.name # <<>>
                        THEN splitext(uploaded_file.name)[1] ELSE <<>> ]

\* AssetDocument.create_from_file followed by AssetDocument.save: the row
\* written for one uploaded file.  uploaded_file.read() returns the bytes
\* from the current position, which is 0 for a file no form has read.
create_from_file(id, asset_id, uploaded_file) ==
    LET mime_type    == guess_type(uploaded_file.name)
        file_content == uploaded_file.content
    IN  [ id        |-> id,
          asset     |-> asset_id,
          file_data |-> file_content,
          file_name |-> uploaded_file.name,
          file_type |-> IF IsNone(mime_type) THEN "application/octet-stream"
                        ELSE Val(mime_type),
          file_size |-> Len(file_content),
          name      |-> IF uploaded_file.name # <<>>
                        THEN splitext(uploaded_file.name)[1] ELSE <<>> ]

\* The rows create_from_file writes for files[1..n], with consecutive ids
RECURSIVE create_documents(_, _, _)
create_documents(first_id, asset_id, files) ==
    IF files = <<>> THEN {}
    ELSE {create_from_file(first_id, asset_id, Head(files))}
            \cup create_documents(first_id + 1, asset_id, Tail(files))

\* ActivityLog.log_action: the appended row
log_action(user, action, asset, details) ==
    [ user           |-> user,
      action         |-> action,
      asset_name     |-> asset.name,
      asset_category |-> asset.category,
      details        |-> details ]

----------------------------------------------------------------------------
(* Queries of assets/views.py *)

\* owned_by without the owner filter
owned_by_anyone(user) == assets

\* Asset.objects.filter(owner=user)
owned_by(user) == {a \in assets : a.owner = user}

\* with_pk on the unfiltered table
with_pk_unfiltered(queryset, pk) == {a \in assets : a.id = pk}

\* get_object() on a queryset: the row with this pk, as a set of 0 or 1 rows
with_pk(queryset, pk) == {a \in queryset : a.id = pk}

\* documents_of for a relation that is not followed on delete
documents_of_none(asset_id) == {}

\* asset.documents.all()
documents_of(asset_id) == {d \in documents : d.asset = asset_id}

\* SQL SUM('value') over a queryset: None (NULL) over no rows
RECURSIVE Sum(_)
Sum(queryset) ==
    IF queryset = {} THEN None
    ELSE LET a    == CHOOSE x \in queryset : TRUE
             rest == Sum(queryset \ {a})
         IN  Some(a.value + (IF IsNone(rest) THEN 0 ELSE Val(rest)))

\* Coalesce(x, default)
Coalesce(x, default) == IF IsNone(x) THEN default ELSE Val(x)

\* annotate() counting the rows of the whole queryset in every group
annotate_count_all(queryset) ==
    { [ category |-> c,
        total    |-> Val(Sum({a \in queryset : a.category = c})),
        count    |-> Cardinality(queryset) ]
      : c \in {a.category : a \in queryset} }

\* annotate summing over the whole queryset instead of the group
annotate_ungrouped(queryset) ==
    { [ category |-> c,
        total    |-> Val(Sum(queryset)),
        count    |-> Cardinality({a \in queryset : a.category = c}) ]
      : c \in {a.category : a \in queryset} }

\* assets.values('category').annotate(total=Sum('value'), count=Count('id')):
\* one row per category that has rows in the queryset
annotate(queryset) ==
    { [ category |-> c,
        total    |-> Val(Sum({a \in queryset : a.category = c})),
        count    |-> Cardinality({a \in queryset : a.category = c}) ]
      : c \in {a.category : a \in queryset} }

\* .order_by('-total'): every listing of the rows in descending total; rows
\* with equal totals come in an order the database chooses
order_by_total_desc(rows) ==
    { s \in [1..Cardinality(rows) -> rows] :
        /\ \A i, j \in DOMAIN s : i # j => s[i] # s[j]
        /\ \A i, j \in DOMAIN s : i < j => s[i].total >= s[j].total }

\* The category -> colour table of DashboardView and chart_data_api
colors ==
    [ mutual_funds      |-> "#3B82F6",
      stocks            |-> "#10B981",
      lands             |-> "#8B5CF6",
      flats             |-> "#F59E0B",
      fixed_deposit     |-> "#EF4444",
      medical_insurance |-> "#EC4899",
      life_insurance    |-> "#06B6D4",
      gold              |-> "#F97316" ]

\* float(Decimal) as serialised by JsonResponse: hundredths below 2^31 are far
\* inside the range (below 2^46 units) where the nearest double prints back
\* as the same two-decimal number, so the number denoted is unchanged.
float(total) == total

\* The labels/values/colors lists built from an ordered breakdown
chart_lists(breakdown) ==
    [ labels |-> [i \in DOMAIN breakdown |->
                    IF breakdown[i].category \in DOMAIN CATEGORY_CHOICES
                    THEN CATEGORY_CHOICES[breakdown[i].category]
                    ELSE breakdown[i].category],
      values |-> [i \in DOMAIN breakdown |-> float(breakdown[i].total)],
      colors |-> [i \in DOMAIN breakdown |->
                    IF breakdown[i].category \in DOMAIN colors
                    THEN colors[breakdown[i].category]
                    ELSE "#6B7280"] ]

\* SQL UPPER() on the characters of the model's names
UPPER(c) ==
    CASE c = "g" -> "G" [] c = "o" -> "O" [] c = "l" -> "L" [] c = "d" -> "D"
      [] OTHER -> c

upper(s) == [i \in DOMAIN s |-> UPPER(s[i])]

\* icontains comparing case-sensitively (name__contains)
contains(name, search) ==
    \E i \in 0..(Len(name) - Len(search)) :
        SubSeq(name, i + 1, i + Len(search)) = search

\* name__icontains=search: UPPER(name) LIKE UPPER('%search%')
icontains(name, search) ==
    \E i \in 0..(Len(name) - Len(search)) :
        SubSeq(upper(name), i + 1, i + Len(search)) = upper(search)

\* Truthiness of a raw query-string parameter: absent and "" are falsy.  A
\* category is a string, a search string a sequence of characters, and a
\* numeric parameter that is present is a non-empty string of digits.
category_given(x) == ~IsNone(x) /\ Val(x) # ""
search_given(x) == ~IsNone(x) /\ Val(x) # <<>>
number_given(x) == ~IsNone(x)

\* Asset.created_at (auto_now_add): the time of the INSERT, which is also
\* what hands out the id; counted in inserts
created_at(a) == a.id

\* Meta.ordering = ['created_at']: oldest first
RECURSIVE order_by_created_asc(_)
order_by_created_asc(queryset) ==
    IF queryset = {} THEN <<>>
    ELSE LET first == CHOOSE a \in queryset :
                        \A b \in queryset : created_at(b) >= created_at(a)
         IN  <<first>> \o order_by_created_asc(queryset \ {first})

\* Asset.Meta.ordering = ['-created_at']: the rows of a queryset, newest first
RECURSIVE order_by_created_desc(_)
order_by_created_desc(queryset) ==
    IF queryset = {} THEN <<>>
    ELSE LET first == CHOOSE a \in queryset :
                        \A b \in queryset : created_at(b) <= created_at(a)
         IN  <<first>> \o order_by_created_desc(queryset \ {first})

\* ActivityLog.objects.filter(user=user) under Meta.ordering =
\* ['-timestamp']: the user's rows, last written first
activity_of(user) ==
    SelectSeq([i \in DOMAIN log |-> log[Len(log) + 1 - i]],
              LAMBDA row : row.user = user)

\* queryset[:n]
limit(rows, n) == SubSeq(rows, 1, IF Len(rows) < n THEN Len(rows) ELSE n)

\* get_queryset starting from every asset instead of the requester's
list_queryset_all(user, GET) ==
    LET q0 == assets
        q1 == IF category_given(GET.category)
              THEN {a \in q0 : a.category = Val(GET.category)} ELSE q0
        q2 == IF search_given(GET.search)
              THEN {a \in q1 : icontains(a.name, Val(GET.search))} ELSE q1
        q3 == IF number_given(GET.min_value)
              THEN {a \in q2 : a.value >= Val(GET.min_value)} ELSE q2
        q4 == IF number_given(GET.max_value)
              THEN {a \in q3 : a.value <= Val(GET.max_value)} ELSE q3
    IN  q4

\* AssetListView.get_queryset: the filters are applied one after the other.
\* GET is [category, search, min_value, max_value], each optional.
list_queryset(user, GET) ==
    LET q0 == owned_by(user)
        q1 == IF category_given(GET.category)
              THEN {a \in q0 : a.category = Val(GET.category)} ELSE q0
        q2 == IF search_given(GET.search)
              THEN {a \in q1 : icontains(a.name, Val(GET.search))} ELSE q1
        q3 == IF number_given(GET.min_value)
              THEN {a \in q2 : a.value >= Val(GET.min_value)} ELSE q2
        q4 == IF number_given(GET.max_value)
              THEN {a \in q3 : a.value <= Val(GET.max_value)} ELSE q3
    IN  q4

----------------------------------------------------------------------------
(* Request handlers of assets/views.py, routed by assets/urls.py *)

Response(op, user, args, status, data) ==
    [op |-> op, user |-> user, args |-> args, status |-> status, data |-> data]

\* LoginRequiredMixin.handle_no_permission / login_required: redirect to the
\* login page, nothing read or written
redirect_to_login(op, user, args) ==
    /\ resp' = Response(op, user, args, 302, [location |-> "login"])
    /\ UNCHANGED <<assets, documents, log, nextAssetId, nextDocId, uploaded, editing>>

\* not_found of a view that logs the access before it looks the row up
not_found_logged(op, user, args) ==
    /\ resp' = Response(op, user, args, 404, [error |-> "Not Found"])
    /\ log' = Append(log, [user |-> user, action |-> "view", asset_name |-> <<>>,
                           asset_category |-> "", details |-> None])
    /\ UNCHANGED <<assets, documents, nextAssetId, nextDocId, uploaded, editing>>

\* Http404 raised by get_object / get_object_or_404
not_found(op, user, args) ==
    /\ resp' = Response(op, user, args, 404, [error |-> "Not Found"])
    /\ UNCHANGED <<assets, documents, log, nextAssetId, nextDocId, uploaded, editing>>

\* HttpResponseForbidden returned by the document views
forbidden(op, user, args) ==
    /\ resp' = Response(op, user, args, 403, [error |-> "Forbidden"])
    /\ UNCHANGED <<assets, documents, log, nextAssetId, nextDocId, uploaded, editing>>

\* form_invalid: the form is rendered again with its errors
form_invalid(op, user, args) ==
    /\ resp' = Response(op, user, args, 200, [errors |-> TRUE])
    /\ UNCHANGED <<assets, documents, log, nextAssetId, nextDocId, uploaded, editing>>

\* DashboardView.get_context_data
DashboardView(user) ==
    IF ~is_authenticated(user) THEN redirect_to_login("dashboard", user, <<>>)
    ELSE
        LET user_assets == owned_by(user)
            total_value == Coalesce(Sum(user_assets), 0)
        IN  \E category_breakdown \in order_by_total_desc(annotate(user_assets)) :
                /\ resp' = Response("dashboard", user, <<>>, 200,
                       [ total_value        |-> total_value,
                         total_assets       |-> Cardinality(user_assets),
                         category_breakdown |-> category_breakdown,
                         chart_data         |-> chart_lists(category_breakdown),
                         recent_assets      |->
                            limit(order_by_created_desc(user_assets), 5),
                         recent_activity    |-> limit(activity_of(user), 10),
                         category_counts    |->
                            [c \in Categories |->
                                IF \E i \in DOMAIN category_breakdown :
                                       category_breakdown[i].category = c
                                THEN (CHOOSE item \in annotate(user_assets) :
                                          item.category = c).count
                                ELSE 0] ])
                /\ UNCHANGED <<assets, documents, log, nextAssetId, nextDocId, uploaded, editing>>

\* AssetListView.get_queryset
AssetListView(user, GET) ==
    IF ~is_authenticated(user) THEN redirect_to_login("asset_list", user, GET)
    ELSE
        /\ resp' = Response("asset_list", user, GET, 200,
                            [assets |-> list_queryset(user, GET)])
        /\ UNCHANGED <<assets, documents, log, nextAssetId, nextDocId, uploaded, editing>>

\* AssetDetailView: get_object on the owner's queryset, then get_context_data
AssetDetailView(user, pk) ==
    IF ~is_authenticated(user) THEN redirect_to_login("asset_detail", user, pk)
    ELSE IF with_pk(owned_by(user), pk) = {} THEN not_found("asset_detail", user, pk)
    ELSE
        LET object == CHOOSE a \in with_pk(owned_by(user), pk) : TRUE
        IN  /\ log' = Append(log, log_action(user, "view", object, None))
            /\ resp' = Response("asset_detail", user, pk, 200,
                                [asset |-> object, documents |-> documents_of(pk)])
            /\ UNCHANGED <<assets, documents, nextAssetId, nextDocId, uploaded, editing>>

\* AssetCreateView.post: get_form_kwargs, form validation, form_valid
AssetCreateView(user, get_category, post, files) ==
    IF ~is_authenticated(user) THEN redirect_to_login("asset_create", user, post)
    ELSE IF ~is_valid(post, current_category(get_category, None))
    THEN form_invalid("asset_create", user, post)
    ELSE
        LET object == save_instance(nextAssetId, user,
                          cleaned_data(post, current_category(get_category, None)))
        IN  /\ assets' = assets \cup {object}
            /\ nextAssetId' = nextAssetId + 1
            /\ documents' = documents \cup create_documents(nextDocId, object.id, files)
            /\ nextDocId' = nextDocId + Len(files)
            /\ uploaded' = uploaded \o files
            /\ log' = Append(log, log_action(user, "create", object,
                                 <<"Created asset with value", object.value>>))
            /\ resp' = Response("asset_create", user, post, 302,
                                [location |-> "asset_list"])
            /\ UNCHANGED editing

\* The 'upload' rows AssetUpdateView.form_valid logs, one per file
upload_logs(user, object, files) ==
    [i \in DOMAIN files |->
        log_action(user, "upload", object, <<"Uploaded document", files[i].name>>)]

\* AssetUpdateView over the assets of every user that, like the create
\* view, sets form.instance.owner to the requester before saving
AssetUpdateView_takeover(user, pk, post, files) ==
    IF ~is_authenticated(user) THEN redirect_to_login("asset_update", user, <<pk, post>>)
    ELSE IF with_pk(assets, pk) = {} THEN not_found("asset_update", user, <<pk, post>>)
    ELSE
        LET instance == CHOOSE a \in with_pk(assets, pk) : TRUE
            category == current_category(None, Some(instance.category))
        IN  IF ~is_valid(post, category)
            THEN form_invalid("asset_update", user, <<pk, post>>)
            ELSE
                LET object == save_instance(instance.id, user,
                                            cleaned_data(post, category))
                IN  /\ assets' = (assets \ {instance}) \cup {object}
                    /\ documents' = documents
                                      \cup create_documents(nextDocId, object.id, files)
                    /\ nextDocId' = nextDocId + Len(files)
                    /\ uploaded' = uploaded \o files
                    /\ log' = Append(log \o upload_logs(user, object, files),
                                     log_action(user, "update", object, <<"Updated asset">>))
                    /\ resp' = Response("asset_update", user, <<pk, post>>, 302,
                                        [location |-> "asset_detail"])
                    /\ UNCHANGED <<nextAssetId, editing>>

\* AssetUpdateView.post: get_object on the owner's queryset, form validation
\* against the stored instance, form_valid
AssetUpdateView(user, pk, post, files) ==
    IF ~is_authenticated(user) THEN redirect_to_login("asset_update", user, <<pk, post>>)
    ELSE IF with_pk(owned_by(user), pk) = {} THEN not_found("asset_update", user, <<pk, post>>)
    ELSE
        LET instance == CHOOSE a \in with_pk(owned_by(user), pk) : TRUE
            category == current_category(None, Some(instance.category))
        IN  IF ~is_valid(post, category)
            THEN form_invalid("asset_update", user, <<pk, post>>)
            ELSE
                LET object == save_instance(instance.id, instance.owner,
                                            cleaned_data(post, category))
                IN  /\ assets' = (assets \ {instance}) \cup {object}
                    /\ documents' = documents
                                      \cup create_documents(nextDocId, object.id, files)
                    /\ nextDocId' = nextDocId + Len(files)
                    /\ uploaded' = uploaded \o files
                    /\ log' = Append(log \o upload_logs(user, object, files),
                                     log_action(user, "update", object, <<"Updated asset">>))
                    /\ resp' = Response("asset_update", user, <<pk, post>>, 302,
                                        [location |-> "asset_detail"])
                    /\ UNCHANGED <<nextAssetId, editing>>

\* Most edit requests in progress at a time
MaxClients == 2

\* Client connections, each serving one edit request at a time
Clients == 1..MaxClients

\* A connection with no edit request in progress
Idle == [pc |-> "idle"]

\* AssetUpdateView.post, first part: get_object loads the asset from the
\* owner's queryset; the request then holds the instance it loaded
AssetUpdateView_get_object(c, user, pk, post, files) ==
    /\ editing[c].pc = "idle"
    /\ IF ~is_authenticated(user) THEN redirect_to_login("asset_update", user, <<pk, post>>)
       ELSE IF with_pk(owned_by(user), pk) = {}
       THEN not_found("asset_update", user, <<pk, post>>)
       ELSE /\ editing' = [editing EXCEPT ![c] =
                              [ pc |-> "loaded", user |-> user, pk |-> pk, post |-> post,
                                files |-> files,
                                instance |-> CHOOSE a \in with_pk(owned_by(user), pk) : TRUE ]]
            /\ UNCHANGED <<assets, documents, log, nextAssetId, nextDocId, uploaded, resp>>

\* The save of an edit under optimistic locking: a request whose asset was
\* changed since it was loaded is answered with a conflict
AssetUpdateView_optimistic(c) ==
    /\ editing[c].pc = "loaded"
    /\ LET request  == editing[c]
           category == current_category(None, Some(request.instance.category))
       IN  IF ~is_valid(request.post, category)
           THEN /\ resp' = Response("asset_update", request.user,
                                    <<request.pk, request.post>>, 200, [errors |-> TRUE])
                /\ UNCHANGED <<assets, documents, log, nextDocId, uploaded>>
           ELSE IF request.instance \notin assets
           THEN /\ resp' = Response("asset_update", request.user,
                                    <<request.pk, request.post>>, 409, [error |-> "Conflict"])
                /\ UNCHANGED <<assets, documents, log, nextDocId, uploaded>>
           ELSE
               LET object == save_instance(request.instance.id, request.instance.owner,
                                           cleaned_data(request.post, category))
               IN  /\ assets' = {a \in assets : a.id # object.id} \cup {object}
                   /\ documents' = documents
                            \cup create_documents(nextDocId, object.id, request.files)
                   /\ nextDocId' = nextDocId + Len(request.files)
                   /\ uploaded' = uploaded \o request.files
                   /\ log' = Append(log \o upload_logs(request.user, object, request.files),
                                    log_action(request.user, "update", object,
                                               <<"Updated asset">>))
                   /\ resp' = Response("asset_update", request.user,
                                       <<request.pk, request.post>>, 302,
                                       [location |-> "asset_detail"])
    /\ editing' = [editing EXCEPT ![c].pc = "done"]
    /\ UNCHANGED nextAssetId

\* AssetUpdateView.post, second part: the form is validated against the
\* instance the request loaded and form.save() writes every column of the
\* instance (UPDATE ... WHERE id, INSERT when no row has the id), whatever
\* other requests have written since the load; then the files are stored
\* and logged and the update is logged
AssetUpdateView_form_valid(c) ==
    /\ editing[c].pc = "loaded"
    /\ LET request  == editing[c]
           category == current_category(None, Some(request.instance.category))
       IN  IF ~is_valid(request.post, category)
           THEN /\ resp' = Response("asset_update", request.user,
                                    <<request.pk, request.post>>, 200, [errors |-> TRUE])
                /\ UNCHANGED <<assets, documents, log, nextDocId, uploaded>>
           ELSE
               LET object == save_instance(request.instance.id, request.instance.owner,
                                           cleaned_data(request.post, category))
               IN  /\ assets' = {a \in assets : a.id # object.id} \cup {object}
                   /\ documents' = documents
                            \cup create_documents(nextDocId, object.id, request.files)
                   /\ nextDocId' = nextDocId + Len(request.files)
                   /\ uploaded' = uploaded \o request.files
                   /\ log' = Append(log \o upload_logs(request.user, object, request.files),
                                    log_action(request.user, "update", object,
                                               <<"Updated asset">>))
                   /\ resp' = Response("asset_update", request.user,
                                       <<request.pk, request.post>>, 302,
                                       [location |-> "asset_detail"])
    /\ editing' = [editing EXCEPT ![c].pc = "done"]
    /\ UNCHANGED nextAssetId

\* AssetDeleteView for a log whose rows reference the asset and are removed
\* with it
AssetDeleteView_purging(user, pk) ==
    IF ~is_authenticated(user) THEN redirect_to_login("asset_delete", user, pk)
    ELSE IF with_pk(owned_by(user), pk) = {} THEN not_found("asset_delete", user, pk)
    ELSE
        LET object == CHOOSE a \in with_pk(owned_by(user), pk) : TRUE
        IN  /\ log' = Append(SelectSeq(log, LAMBDA row : row.asset_name # object.name),
                             log_action(user, "delete", object,
                                 <<"Deleted asset with value", object.value>>))
            /\ assets' = assets \ {object}
            /\ documents' = documents \ documents_of(object.id)
            /\ resp' = Response("asset_delete", user, pk, 302,
                                [location |-> "asset_list"])
            /\ UNCHANGED <<nextAssetId, nextDocId, uploaded, editing>>

\* AssetDeleteView.post: get_object on the owner's queryset, form_valid logs,
\* then DeletionMixin deletes the row; on_delete=CASCADE removes its documents
AssetDeleteView(user, pk) ==
    IF ~is_authenticated(user) THEN redirect_to_login("asset_delete", user, pk)
    ELSE IF with_pk(owned_by(user), pk) = {} THEN not_found("asset_delete", user, pk)
    ELSE
        LET object == CHOOSE a \in with_pk(owned_by(user), pk) : TRUE
        IN  /\ log' = Append(log, log_action(user, "delete", object,
                                 <<"Deleted asset with value", object.value>>))
            /\ assets' = assets \ {object}
            /\ documents' = documents \ documents_of(object.id)
            /\ resp' = Response("asset_delete", user, pk, 302,
                                [location |-> "asset_list"])
            /\ UNCHANGED <<nextAssetId, nextDocId, uploaded, editing>>

\* document.asset.owner
document_owner(document) ==
    (CHOOSE a \in assets : a.id = document.asset).owner

\* download_document
download_document(user, pk) ==
    IF ~is_authenticated(user) THEN redirect_to_login("document_download", user, pk)
    ELSE IF {d \in documents : d.id = pk} = {} THEN not_found("document_download", user, pk)
    ELSE
        LET document == CHOOSE d \in documents : d.id = pk
        IN  IF document_owner(document) # user
            THEN forbidden("document_download", user, pk)
            ELSE
                /\ resp' = Response("document_download", user, pk, 200,
                       [ content        |-> document.file_data,
                         content_type   |-> document.file_type,
                         filename       |-> document.file_name,
                         content_length |-> document.file_size ])
                /\ UNCHANGED <<assets, documents, log, nextAssetId, nextDocId, uploaded, editing>>

\* delete_document removing the row before it checks the ownership
delete_document_unchecked(user, pk) ==
    IF ~is_authenticated(user) THEN redirect_to_login("document_delete", user, pk)
    ELSE IF {d \in documents : d.id = pk} = {} THEN not_found("document_delete", user, pk)
    ELSE
        LET document == CHOOSE d \in documents : d.id = pk
            asset    == CHOOSE a \in assets : a.id = document.asset
        IN  IF document_owner(document) # user
            THEN /\ documents' = documents \ {document}
                 /\ resp' = Response("document_delete", user, pk, 403,
                                     [error |-> "Forbidden"])
                 /\ UNCHANGED <<assets, log, nextAssetId, nextDocId, uploaded, editing>>
            ELSE
                /\ documents' = documents \ {document}
                /\ log' = Append(log, log_action(user, "delete", asset,
                                     <<"Deleted document", document.file_name>>))
                /\ resp' = Response("document_delete", user, pk, 302,
                                    [location |-> "asset_detail"])
                /\ UNCHANGED <<assets, nextAssetId, nextDocId, uploaded, editing>>

\* delete_document
delete_document(user, pk) ==
    IF ~is_authenticated(user) THEN redirect_to_login("document_delete", user, pk)
    ELSE IF {d \in documents : d.id = pk} = {} THEN not_found("document_delete", user, pk)
    ELSE
        LET document == CHOOSE d \in documents : d.id = pk
            asset    == CHOOSE a \in assets : a.id = document.asset
        IN  IF document_owner(document) # user
            THEN forbidden("document_delete", user, pk)
            ELSE
                /\ documents' = documents \ {document}
                /\ log' = Append(log, log_action(user, "delete", asset,
                                     <<"Deleted document", document.file_name>>))
                /\ resp' = Response("document_delete", user, pk, 302,
                                    [location |-> "asset_detail"])
                /\ UNCHANGED <<assets, nextAssetId, nextDocId, uploaded, editing>>

\* ActivityLogView.get_queryset: the user's rows, newest first
ActivityLogView(user) ==
    IF ~is_authenticated(user) THEN redirect_to_login("activity_log", user, <<>>)
    ELSE
        /\ resp' = Response("activity_log", user, <<>>, 200,
               [logs |-> SelectSeq([i \in DOMAIN log |-> log[Len(log) + 1 - i]],
                                   LAMBDA row : row.user = user)])
        /\ UNCHANGED <<assets, documents, log, nextAssetId, nextDocId, uploaded, editing>>

\* chart_data_api
chart_data_api(user) ==
    IF ~is_authenticated(user) THEN redirect_to_login("chart_data_api", user, <<>>)
    ELSE
        \E category_breakdown \in order_by_total_desc(annotate(owned_by(user))) :
            /\ resp' = Response("chart_data_api", user, <<>>, 200,
                                chart_lists(category_breakdown))
            /\ UNCHANGED <<assets, documents, log, nextAssetId, nextDocId, uploaded, editing>>

----------------------------------------------------------------------------
(* Requests the clients send *)

Post(name, category, value, start_date, end_date, latitude, longitude) ==
    [ name       |-> name,
      category   |-> category,
      value      |-> value,
      start_date |-> start_date,
      end_date   |-> end_date,
      latitude   |-> latitude,
      longitude  |-> longitude ]

Gold == <<"G", "o", "l", "d">>
Old == <<"o", "l", "d">>

\* Submissions of the full system: two valid ones and one whose end date
\* precedes its start date
Posts ==
    { Post(Some(Gold), Some("gold"), Some(10000), Some(1), None, None, None),
      Post(Some(Old), Some("stocks"), Some(25050), Some(1), Some(2), None, None),
      Post(Some(Old), Some("gold"), Some(10000), Some(2), Some(1), None, None) }

\* Uploaded files: name and bytes
DeedPdf == [name |-> <<"a", ".", "p", "d", "f">>, content |-> <<37, 80>>]
Note == [name |-> <<"n">>, content |-> <<0>>]

\* request.FILES.getlist('files'): no file, or two files in one request
Uploads == {<<>>, <<Note, DeedPdf>>}

NoFilter == [category |-> None, search |-> None, min_value |-> None, max_value |-> None]

\* Query strings of the asset list in the full system
Filters == {NoFilter, [NoFilter EXCEPT !.category = Some("gold")]}

----------------------------------------------------------------------------
(* The full system *)

Init ==
    /\ assets = {}
    /\ documents = {}
    /\ log = <<>>
    /\ nextAssetId = 1
    /\ nextDocId = 1
    /\ uploaded = <<>>
    /\ editing = [c \in Clients |-> Idle]
    /\ resp = Response("none", AnonymousUser, <<>>, 0, <<>>)

\* The tables stay within the bounds of the model
WithinBounds ==
    /\ nextAssetId' <= MaxAssets + 1
    /\ nextDocId' <= MaxDocs + 1
    /\ Len(log') <= MaxLog

Next ==
    \/ \E user \in Requesters : DashboardView(user)
    \/ \E user \in Requesters, GET \in Filters : AssetListView(user, GET)
    \/ \E user \in Requesters, pk \in 1..MaxAssets :
            AssetDetailView(user, pk) /\ WithinBounds
    \/ \E user \in Requesters, post \in Posts, files \in Uploads :
            AssetCreateView(user, None, post, files) /\ WithinBounds
    \/ \E user \in Requesters, pk \in 1..MaxAssets, post \in Posts, files \in Uploads :
            AssetUpdateView(user, pk, post, files) /\ WithinBounds
    \/ \E user \in Requesters, pk \in 1..MaxAssets :
            AssetDeleteView(user, pk) /\ WithinBounds
    \/ \E user \in Requesters, pk \in 1..MaxDocs : download_document(user, pk)
    \/ \E user \in Requesters, pk \in 1..MaxDocs :
            delete_document(user, pk) /\ WithinBounds
    \/ \E user \in Requesters : ActivityLogView(user)
    \/ \E user \in Requesters : chart_data_api(user)

Spec == Init /\ [][Next]_vars

----------------------------------------------------------------------------
(* Form submissions: one owner creating and editing assets with every      *)
(* combination of dates and of land coordinates                            *)

\* Dates are day numbers
Dates == {1, 2}

\* Coordinates in degrees; 0 is the equator / the prime meridian
Coordinates == {0, 5}

Optional(S) == {None} \cup {Some(v) : v \in S}

DatePosts ==
    { Post(Some(Gold), Some("gold"), Some(10000), start_date, end_date, None, None)
      : start_date \in Optional(Dates), end_date \in Optional(Dates) }

LandPosts ==
    { Post(Some(Old), Some("lands"), Some(25050), Some(1), None, latitude, longitude)
      : latitude \in Optional(Coordinates), longitude \in Optional(Coordinates) }

FormPosts == DatePosts \cup LandPosts

\* ?category= of the create page
GetCategories == {None, Some("lands"), Some("gold")}

NextForm ==
    \/ \E post \in FormPosts, get_category \in GetCategories :
            AssetCreateView("alice", get_category, post, <<>>) /\ WithinBounds
    \/ \E pk \in 1..MaxAssets, post \in FormPosts :
            AssetUpdateView("alice", pk, post, <<>>) /\ WithinBounds

SpecForm == Init /\ [][NextForm]_vars

----------------------------------------------------------------------------
(* Queries: owners create assets, then list and summarise them             *)

MaxListed == 3

QueryPosts ==
    { Post(Some(Gold), Some("gold"), Some(10000), Some(1), None, None, None),
      Post(Some(Old), Some("gold"), Some(25050), Some(1), None, None, None),
      Post(Some(Gold), Some("stocks"), Some(25050), Some(1), None, None, None),
      Post(Some(Old), Some("stocks"), Some(10000), Some(1), None, None, None) }

\* Query strings of the asset list
QueryFilters ==
    [ category  : {None, Some("gold")},
      search    : {None, Some(<<>>), Some(<<"g", "O">>)},
      min_value : {None, Some(25050)},
      max_value : {None, Some(10000)} ]

NextQuery ==
    \/ \E user \in Users, post \in QueryPosts :
            AssetCreateView(user, None, post, <<>>) /\ nextAssetId' <= MaxListed + 1
    \/ \E user \in Users, GET \in QueryFilters : AssetListView(user, GET)
    \/ \E user \in Users : DashboardView(user)
    \/ \E user \in Users : chart_data_api(user)

SpecQuery == Init /\ [][NextQuery]_vars

----------------------------------------------------------------------------
(* Document uploads: batches of files put through AssetDocumentForm         *)

\* Longest batch of files
MaxBatch == 3

\* Files a client can send: an upper-case extension, a file over the maximum
\* size and an empty file, next to the files of the full system
ScanPDF == [name |-> <<"s", ".", "P", "D", "F">>, content |-> <<37>>]
BigPdf == [name |-> <<"b", ".", "p", "d", "f">>, content |-> <<37, 80, 68>>]
EmptyPdf == [name |-> <<"e", ".", "p", "d", "f">>, content |-> <<>>]
Files == {DeedPdf, Note, ScanPDF, BigPdf, EmptyPdf}

Batches == UNION {[1..n -> Files] : n \in 0..MaxBatch}

\* AssetDocumentForm bound to a batch of files and validated
AssetDocumentForm(files) ==
    /\ resp' = Response("document_form", AnonymousUser, files, 0, clean_files(files))
    /\ UNCHANGED <<assets, documents, log, nextAssetId, nextDocId, uploaded, editing>>

NextUpload == \E files \in Batches : AssetDocumentForm(files)

SpecUpload == Init /\ [][NextUpload]_vars

----------------------------------------------------------------------------
(* Recent lists: a user with more assets and more log rows than the         *)
(* dashboard shows, next to a user with one asset                           *)

\* Most assets and most log rows
MaxRecentAssets == 6
MaxRecentLog == 11

\* The asset every create submits
RecentPost == Post(Some(Gold), Some("gold"), Some(10000), Some(1), None, None, None)

NextRecent ==
    \/ AssetCreateView("alice", None, RecentPost, <<>>)
            /\ nextAssetId' <= MaxRecentAssets + 1
            /\ Len(log') <= MaxRecentLog
    \/ /\ owned_by("bob") = {}
       /\ AssetCreateView("bob", None, RecentPost, <<>>)
       /\ nextAssetId' <= MaxRecentAssets + 1
       /\ Len(log') <= MaxRecentLog
    \/ \E pk \in 1..2 : AssetDetailView("alice", pk) /\ Len(log') <= MaxRecentLog
    \/ \E user \in Users : DashboardView(user)

SpecRecent == Init /\ [][NextRecent]_vars

----------------------------------------------------------------------------
(* Concurrent edits: one owner creates an asset and sends edit requests of  *)
(* it over several connections, whose loads and saves interleave            *)

NextEdit ==
    \/ \E post \in Posts :
            assets = {} /\ AssetCreateView("alice", None, post, <<>>)
    \/ \E c \in Clients, pk \in {1}, post \in Posts :
            AssetUpdateView_get_object(c, "alice", pk, post, <<>>)
    \/ \E c \in Clients : AssetUpdateView_form_valid(c)

SpecEdit == Init /\ [][NextEdit]_vars

----------------------------------------------------------------------------
(* Properties *)

\* The request of the last response
Authenticated == resp.user \in Users
Succeeded(op, status) ==
    resp.op = op /\ resp.status = status /\ resp.data # [location |-> "login"]

\* The response redirects to the page shown after a successful change
Saved(r) == r.status = 302 /\ r.data # [location |-> "login"]

\* Sum of the values of a set of asset rows, id by id
RECURSIVE ValueUpTo(_, _)
ValueUpTo(rows, n) ==
    IF n = 0 THEN 0
    ELSE ValueUpTo(rows, n - 1)
            + (IF \E a \in rows : a.id = n
               THEN (CHOOSE a \in rows : a.id = n).value ELSE 0)

TotalOf(rows) == ValueUpTo(rows, nextAssetId - 1)

\* C1: the total value on a user's dashboard is the sum of the values of
\* exactly the assets that user owns, zero when the user owns none, whatever
\* other users own.
C1_TotalValue ==
    Succeeded("dashboard", 200) =>
        resp.data.total_value = TotalOf({a \in assets : a.owner = resp.user})

\* C1 witness: a dashboard that adds up two assets of its user
C1_Witness ==
    /\ Succeeded("dashboard", 200)
    /\ Cardinality({a \in assets : a.owner = resp.user}) = 2
    /\ resp.data.total_value = 35050

\* The last request addressed an asset that exists and belongs to somebody
\* other than the (authenticated) requester
ForeignAssetRequest ==
    /\ Authenticated
    /\ resp.op \in {"asset_detail", "asset_update", "asset_delete"}
    /\ LET pk == IF resp.op = "asset_update" THEN resp.args[1] ELSE resp.args
       IN  \E a \in assets : a.id = pk /\ a.owner # resp.user

\* The last request addressed a document of an asset that belongs to
\* somebody other than the (authenticated) requester
ForeignDocumentRequest ==
    /\ Authenticated
    /\ resp.op \in {"document_download", "document_delete"}
    /\ \E d \in documents : d.id = resp.args /\ document_owner(d) # resp.user

\* C2 as stated: every request for somebody else's asset or document is
\* answered "forbidden".
C2_Original ==
    (ForeignAssetRequest \/ ForeignDocumentRequest) => resp.status = 403

\* C2 amended: a request for somebody else's asset is answered "not found",
\* a request for somebody else's document is answered "forbidden", and in
\* both cases the response carries an error and none of the asset's or
\* document's data.
C2_NoForeignData ==
    /\ ForeignAssetRequest =>
            resp.status = 404 /\ resp.data = [error |-> "Not Found"]
    /\ ForeignDocumentRequest =>
            resp.status = 403 /\ resp.data = [error |-> "Forbidden"]

\* C2 witness: a user asked to view an asset of another user that has a
\* document attached, and was answered "not found"
C2_Witness ==
    /\ ForeignAssetRequest
    /\ resp.op = "asset_detail"
    /\ documents_of(resp.args) # {}
    /\ resp.status = 404

\* The asset form submitted by the last request, if it was a submission
IsSubmission == resp.op \in {"asset_create", "asset_update"}
Submitted == IF resp.op = "asset_update" THEN resp.args[2] ELSE resp.args

EndBeforeStart(post) ==
    /\ ~IsNone(post.start_date)
    /\ ~IsNone(post.end_date)
    /\ Val(post.end_date) < Val(post.start_date)

\* C3: every stored asset has no end date or an end date not before its
\* start date, and a submission whose end date is before its start date is
\* not saved.
C3_EndNotBeforeStart ==
    /\ \A a \in assets : IsNone(a.end_date) \/ Val(a.end_date) >= a.start_date
    /\ (IsSubmission /\ EndBeforeStart(Submitted)) => ~Saved(resp)

\* C3 witness: an asset with an end date is stored and an edit of it with
\* the end date before the start date has just been refused
C3_Witness ==
    /\ \E a \in assets : ~IsNone(a.end_date)
    /\ resp.op = "asset_update"
    /\ EndBeforeStart(Submitted)
    /\ resp.status = 200 /\ resp.data = [errors |-> TRUE]

OtherFieldsValid(post) ==
    /\ ~IsNone(post.name)
    /\ ~IsNone(post.value)
    /\ ~IsNone(post.start_date)
    /\ ~EndBeforeStart(post)

\* C4: a create submission with category "lands" is refused when latitude
\* or longitude is missing and saved when both are present, whatever their
\* numeric values, the other fields being valid.
C4_LandsCoordinates ==
    ( /\ resp.op = "asset_create"
      /\ Authenticated
      /\ Submitted.category = Some("lands")
      /\ OtherFieldsValid(Submitted) )
    => (Saved(resp)
            <=> (~IsNone(Submitted.latitude) /\ ~IsNone(Submitted.longitude)))

\* C5: when its owner deletes an asset, the asset and every document
\* attached to it are gone afterwards, and the request appends exactly one
\* log row, of kind "delete", carrying the name and category the asset had
\* when it was deleted.
C5_DeleteCascadesAndLogs ==
    [][ (resp'.op = "asset_delete" /\ Saved(resp')) =>
            LET object == CHOOSE a \in assets : a.id = resp'.args
            IN  /\ \E a \in assets : a.id = resp'.args /\ a.owner = resp'.user
                /\ \A a \in assets' : a.id # resp'.args
                /\ \A d \in documents' : d.asset # resp'.args
                /\ Len(log') = Len(log) + 1
                /\ SubSeq(log', 1, Len(log)) = log
                /\ log'[Len(log')].action = "delete"
                /\ log'[Len(log')].user = resp'.user
                /\ log'[Len(log')].asset_name = object.name
                /\ log'[Len(log')].asset_category = object.category ]_vars

\* C5 witness: an asset created with documents has been deleted by its
\* owner; its documents are gone and the last log row is the deletion
C5_Witness ==
    /\ Succeeded("asset_delete", 302)
    /\ nextDocId > 1
    /\ documents = {}
    /\ Len(log) = 2
    /\ log[1].action = "create"
    /\ log[2].action = "delete"
    /\ log[2].asset_name = log[1].asset_name

\* C6: a download by the owner returns the bytes and the file name that
\* were uploaded for that document and the MIME type recorded for it when
\* it was stored.
C6_DownloadRoundTrip ==
    Succeeded("document_download", 200) =>
        /\ resp.args \in DOMAIN uploaded
        /\ resp.data.content = uploaded[resp.args].content
        /\ resp.data.filename = uploaded[resp.args].name
        /\ \E d \in documents :
                /\ d.id = resp.args
                /\ resp.data.content_type = d.file_type
                /\ d.file_type = (IF IsNone(guess_type(uploaded[resp.args].name))
                                  THEN "application/octet-stream"
                                  ELSE Val(guess_type(uploaded[resp.args].name)))

\* C6 witness: the owner downloaded the PDF stored second in a two-file upload
C6_Witness ==
    /\ Succeeded("document_download", 200)
    /\ resp.args = 2
    /\ uploaded = <<Note, DeedPdf>>
    /\ resp.data.content = <<37, 80>>
    /\ resp.data.content_type = "application/pdf"

\* Lower-case form of a character of the model's names
Fold(c) ==
    CASE c = "G" -> "g" [] c = "O" -> "o" [] c = "L" -> "l" [] c = "D" -> "d"
      [] OTHER -> c

\* name contains search, ignoring case
ContainsIgnoringCase(name, search) ==
    \E offset \in 0..(Len(name) - Len(search)) :
        \A j \in 1..Len(search) : Fold(name[offset + j]) = Fold(search[j])

\* A filter is supplied when the parameter is present and not empty
SuppliedCategory(x) == Len(x) = 1 /\ x[1] # ""
SuppliedSearch(x) == Len(x) = 1 /\ Len(x[1]) > 0
SuppliedBound(x) == Len(x) = 1

C8_ChartData ==
    Succeeded("chart_data_api", 200) =>
        LET mine == {a \in assets : a.owner = resp.user}
            data == resp.data
        IN  /\ Len(data.labels) = Len(data.values)
            /\ Len(data.values) = Len(data.colors)
            /\ \A i \in DOMAIN data.labels :
                    \E c \in Categories : data.labels[i] = CATEGORY_CHOICES[c]
            /\ \A c \in Categories :
                    LET at == {i \in DOMAIN data.labels :
                                    data.labels[i] = CATEGORY_CHOICES[c]}
                        held == {a \in mine : a.category = c}
                    IN  IF held = {} THEN at = {}
                        ELSE /\ Cardinality(at) = 1
                             /\ \A i \in at : data.values[i] = TotalOf(held)

\* C8 witness: a chart whose single category sums two assets of the user,
\* while another user holds an asset in a category the chart omits
C8_Witness ==
    /\ Succeeded("chart_data_api", 200)
    /\ resp.data.labels = <<"Gold">>
    /\ resp.data.values = <<35050>>
    /\ \E a \in assets : a.owner # resp.user /\ a.category = "stocks"

\* C9: a request without an authenticated session, to any endpoint other
\* than login and signup, is answered with the redirect to the login page
\* and leaves every asset, document and log row as it was.
C9_LoginRequired ==
    [][ (resp'.user = AnonymousUser /\ resp'.op # "none") =>
            /\ resp'.status = 302
            /\ resp'.data = [location |-> "login"]
            /\ UNCHANGED <<assets, documents, log>> ]_vars

\* C9 witness: an anonymous request to delete an existing asset was
\* redirected to the login page
C9_Witness ==
    /\ resp.user = AnonymousUser
    /\ resp.op = "asset_delete"
    /\ \E a \in assets : a.id = resp.args
    /\ resp.status = 302

\* Number of rows of the given kind among the rows appended by a step
Appended(kind, before, after) ==
    Cardinality({i \in (Len(before) + 1)..Len(after) : after[i].action = kind})

\* C10: every successful asset view, create, update and delete, every
\* stored upload (during creation or during an edit) and every document
\* download appends exactly one log row of its kind.
C10_OneRowPerAction ==
    [][ /\ (resp'.op = "asset_detail" /\ resp'.status = 200)
                => Appended("view", log, log') = 1
        /\ (resp'.op = "asset_create" /\ Saved(resp'))
                => /\ Appended("create", log, log') = 1
                   /\ Appended("upload", log, log') = nextDocId' - nextDocId
        /\ (resp'.op = "asset_update" /\ Saved(resp'))
                => /\ Appended("update", log, log') = 1
                   /\ Appended("upload", log, log') = nextDocId' - nextDocId
        /\ (resp'.op = "asset_delete" /\ Saved(resp'))
                => Appended("delete", log, log') = 1
        /\ (resp'.op = "document_download" /\ resp'.status = 200)
                => Appended("download", log, log') = 1 ]_vars


\* C11: the activity log is append-only: every request leaves the rows
\* already written where they are and as they are, so a row keeps the asset
\* name and category it was written with whatever happens to the asset.
C11_LogAppendOnly ==
    [][ /\ Len(log') >= Len(log)
        /\ \A i \in DOMAIN log : log'[i] = log[i] ]_vars

\* C11 witness: an asset was renamed and put in another category after its
\* creation was logged; the creation row still carries the first name
C11_Witness ==
    /\ Len(log) = 2
    /\ log[1].action = "create"
    /\ log[2].action = "update"
    /\ log[1].asset_name # log[2].asset_name
    /\ \E a \in assets :
            /\ a.name = log[2].asset_name
            /\ a.category # log[1].asset_category

\* The last request ended in a validation, permission or not-found error
EndedInError(r) ==
    \/ r.status \in {403, 404}
    \/ r.data = [errors |-> TRUE]

\* C14: a request that ends in a validation error, a permission error or a
\* not-found result leaves every asset, document and log row as it was.
C14_ErrorsChangeNothing ==
    [][ EndedInError(resp') => UNCHANGED <<assets, documents, log>> ]_vars

\* C14 witness: an edit of a stored asset that has documents was refused
\* with a validation error
C14_Witness ==
    /\ resp.op = "asset_update"
    /\ resp.data = [errors |-> TRUE]
    /\ \E a \in assets : a.id = resp.args[1] /\ documents_of(a.id) # {}

\* C15: delete_document removes nothing when the requester does not own
\* the document's asset, and removes exactly the addressed document when
\* the requester owns it.
C15_DeleteDocumentChecksOwner ==
    [][ resp'.op = "document_delete" =>
            /\ resp'.status = 403 =>
                    /\ documents' = documents
                    /\ \E d \in documents :
                            d.id = resp'.args /\ document_owner(d) # resp'.user
            /\ Saved(resp') =>
                    /\ \E d \in documents :
                            /\ d.id = resp'.args
                            /\ document_owner(d) = resp'.user
                            /\ documents' = documents \ {d}
                    /\ \A d \in documents' : d.id # resp'.args ]_vars

\* C15 witness: the owner deleted the first of two documents of an asset
\* and the second is still stored
C15_Witness ==
    /\ Succeeded("document_delete", 302)
    /\ resp.args = 1
    /\ \E d \in documents : d.id = 2 /\ document_owner(d) = resp.user
    /\ Cardinality(documents) = 1


\* The document passes the checks of the upload validation
AllowedDocument(d) ==
    /\ lower(splitext(d.file_name)[2]) \in ALLOWED_DOCUMENT_EXTENSIONS
    /\ d.file_size <= MAX_DOCUMENT_SIZE

\* C12: a create or edit submission carrying a file with an extension outside
\* the allow-list or a size over the maximum is rejected, so every document
\* stored by the create and edit handlers has an allowed extension and a
\* size within the maximum.
C12_OnlyAllowedDocumentsStored ==
    \A d \in documents : AllowedDocument(d)


\* The file alone passes the upload validation: it has a name and content,
\* an allowed extension and a size within the maximum
PassesValidation(f) ==
    /\ f.name # <<>>
    /\ Len(f.content) \in 1..MAX_DOCUMENT_SIZE
    /\ \E ext \in ALLOWED_DOCUMENT_EXTENSIONS :
            /\ Len(f.name) >= Len(ext)
            /\ lower(SubSeq(f.name, Len(f.name) - Len(ext) + 1, Len(f.name))) = ext
            /\ \A i \in (Len(f.name) - Len(ext) + 2)..Len(f.name) : f.name[i] # "."
            /\ \E i \in 1..(Len(f.name) - Len(ext)) : f.name[i] # "."

OwnedBy(u) ==
    LET mine == {a \in assets : a.owner = u}
    IN  <<mine, {d \in documents : \E a \in mine : a.id = d.asset}>>

\* What the read endpoints return to the user: the asset list under every
\* query string, the dashboard summary, the chart data and the activity log
ReturnedTo(u) ==
    [ asset_list   |-> [GET \in Filters |-> list_queryset(u, GET)],
      total_value  |-> Coalesce(Sum(owned_by(u)), 0),
      breakdown    |-> order_by_total_desc(annotate(owned_by(u))),
      chart_data   |-> {chart_lists(b) : b \in order_by_total_desc(annotate(owned_by(u)))},
      activity_log |-> SelectSeq(log, LAMBDA row : row.user = u) ]

C18_LandsHaveCoordinates ==
    \A a \in assets :
        a.category = "lands" => ~IsNone(a.latitude) /\ ~IsNone(a.longitude)

\* C18 witness: an asset created in another category, without coordinates,
\* has been edited into a "lands" asset, and a later edit that clears its
\* latitude has just been refused
C18_Witness ==
    /\ Len(log) = 2
    /\ log[1].action = "create" /\ log[1].asset_category = "gold"
    /\ log[2].action = "update" /\ log[2].asset_category = "lands"
    /\ resp.op = "asset_update"
    /\ resp.data = [errors |-> TRUE]
    /\ Submitted.category = Some("lands")
    /\ IsNone(Submitted.latitude)
    /\ \E a \in assets : a.id = resp.args[1] /\ a.category = "lands"


\* The assets the requester of the last response holds in a category
Held(c) == {a \in assets : a.owner = resp.user /\ a.category = c}

\* Rows of the dashboard's category breakdown that are about a category
BreakdownRows(c) ==
    {i \in DOMAIN resp.data.category_breakdown :
        resp.data.category_breakdown[i].category = c}

\* C19 as stated: the dashboard's per-category breakdown has an entry for
\* each of the eight categories, with the user's total value and count for
\* a category the user holds and with value zero and count zero for a
\* category the user does not hold.
C19_Original ==
    Succeeded("dashboard", 200) =>
        \A c \in Categories :
            /\ resp.data.category_counts[c] = Cardinality(Held(c))
            /\ \E i \in BreakdownRows(c) :
                    /\ resp.data.category_breakdown[i].total = TotalOf(Held(c))
                    /\ resp.data.category_breakdown[i].count = Cardinality(Held(c))

\* C19: the dashboard's per-category counts have an entry for each of the
\* eight categories, the user's count for a category the user holds and
\* zero for a category the user does not hold; the breakdown with total
\* values has one row, with the user's total and count, for each category
\* the user holds and no row for a category the user does not hold.
C19_CountsForEveryCategory ==
    Succeeded("dashboard", 200) =>
        /\ DOMAIN resp.data.category_counts = Categories
        /\ \A c \in Categories :
            /\ resp.data.category_counts[c] = Cardinality(Held(c))
            /\ IF Held(c) = {} THEN BreakdownRows(c) = {}
               ELSE /\ Cardinality(BreakdownRows(c)) = 1
                    /\ \A i \in BreakdownRows(c) :
                        /\ resp.data.category_breakdown[i].total = TotalOf(Held(c))
                        /\ resp.data.category_breakdown[i].count = Cardinality(Held(c))

\* C19 witness: the dashboard of a user who holds two assets in one
\* category and one in another, the other six categories counting zero
C19_Witness ==
    /\ Succeeded("dashboard", 200)
    /\ Cardinality(Held("gold")) = 2
    /\ Cardinality(Held("stocks")) = 1
    /\ resp.data.category_counts["gold"] = 2
    /\ resp.data.category_counts["lands"] = 0
    /\ Len(resp.data.category_breakdown) = 2


\* The smaller of two numbers
Least(m, n) == IF m < n THEN m ELSE n

\* C20: the dashboard's recent assets are the (up to) five assets of the
\* user created last, newest first (ids are handed out in the order of
\* creation), and its recent activity is the (up to) ten log rows of the
\* user written last, newest first.
C20_RecentLists ==
    Succeeded("dashboard", 200) =>
        LET mine   == {a \in assets : a.owner = resp.user}
            recent == resp.data.recent_assets
            rows   == {i \in DOMAIN log : log[i].user = resp.user}
            acts   == resp.data.recent_activity
        IN  /\ Len(recent) = Least(5, Cardinality(mine))
            /\ \A k \in DOMAIN recent :
                    /\ recent[k] \in mine
                    /\ Cardinality({a \in mine : a.id > recent[k].id}) = k - 1
            /\ Len(acts) = Least(10, Cardinality(rows))
            /\ \A k \in DOMAIN acts :
                    \E i \in rows :
                        /\ acts[k] = log[i]
                        /\ Cardinality({j \in rows : j > i}) = k - 1

\* C20 witness: the dashboard of a user who owns six assets and has eleven
\* log rows shows five assets, without the oldest, and ten rows, without
\* the first
C20_Witness ==
    /\ Succeeded("dashboard", 200)
    /\ Cardinality({a \in assets : a.owner = resp.user}) = 6
    /\ Cardinality({i \in DOMAIN log : log[i].user = resp.user}) = 11
    /\ Len(resp.data.recent_assets) = 5
    /\ resp.data.recent_assets[1].id = 6
    /\ resp.data.recent_assets[5].id = 2
    /\ Len(resp.data.recent_activity) = 10
    /\ resp.data.recent_activity[1] = log[11]
    /\ resp.data.recent_activity[10] = log[2]


\* The stored asset has the values of the form fields of a submission
StoredAs(a, post) ==
    /\ a.name = Val(post.name)
    /\ a.category = Val(post.category)
    /\ a.value = Val(post.value)
    /\ a.start_date = Val(post.start_date)
    /\ a.end_date = post.end_date
    /\ a.latitude = post.latitude
    /\ a.longitude = post.longitude

\* A submission that passes the validation of a form for an asset that is
\* not of category "lands"
ValidEdit(post) ==
    /\ OtherFieldsValid(post)
    /\ ~IsNone(post.category)
    /\ post.category # Some("lands")

\* C17: of the edit requests that one owner sends concurrently for one
\* asset, each loading the asset and then saving it, every one with a valid
\* submission succeeds, without a conflict error, whatever was saved since
\* it loaded, and when its save has executed the stored asset has the form
\* fields it submitted; so the stored asset has the fields of the request
\* whose save executed last.
C17_LastWriterWins ==
    [][ \A c \in Clients :
            (editing[c].pc = "loaded" /\ editing'[c].pc = "done"
                /\ ValidEdit(editing[c].post)) =>
                /\ resp'.op = "asset_update"
                /\ resp'.user = editing[c].user
                /\ Saved(resp')
                /\ \E a \in assets' :
                        /\ a.id = editing[c].pk
                        /\ StoredAs(a, editing[c].post)
                /\ \A a, b \in assets' : a.id = b.id => a = b ]_vars

\* C17 witness: two requests loaded the same state of the asset and then
\* saved different submissions one after the other; both were logged as
\* updates and the stored asset has the fields of the second save, which
\* differ from those of the first
C17_Witness ==
    /\ \A c \in {1, 2} : editing[c].pc = "done"
    /\ editing[1].instance = editing[2].instance
    /\ ValidEdit(editing[1].post) /\ ValidEdit(editing[2].post)
    /\ ~StoredAs(editing[1].instance, editing[1].post)
    /\ Len(log) = 3
    /\ log[2].action = "update" /\ log[3].action = "update"
    /\ Saved(resp)
    /\ resp.args[2] = editing[2].post
    /\ \E a \in assets :
            /\ a.id = 1
            /\ StoredAs(a, editing[2].post)
            /\ ~StoredAs(a, editing[1].post)


\* C21: an asset gets the authenticated requester of the create request as
\* its owner, and no later request of any user (edit, document upload,
\* document delete or any other) changes the owner of a stored asset.
C21_OwnerNeverChanges ==
    [][ \A a \in assets' :
            IF \E b \in assets : b.id = a.id
            THEN \A b \in assets : b.id = a.id => b.owner = a.owner
            ELSE /\ resp'.op = "asset_create"
                 /\ resp'.user \in Users
                 /\ a.owner = resp'.user ]_vars

\* C21 witness: an asset that its owner has edited into another name
\* still belongs to the user who created it, while the last
\* request, an edit of it by another user, was answered "not found"
C21_Witness ==
    /\ Len(log) = 2
    /\ log[1].action = "create"
    /\ log[2].action = "update"
    /\ log[1].asset_name # log[2].asset_name
    /\ resp.op = "asset_update"
    /\ resp.status = 404
    /\ \E a \in assets :
            /\ a.id = resp.args[1]
            /\ a.owner = log[1].user
            /\ a.owner # resp.user
            /\ resp.user \in Users
            /\ a.name = log[2].asset_name

====
